---- MODULE Spec2Model ----
(***************************************************************************)
(* Model of src/hash_table.py: a fixed-capacity hash table of contacts     *)
(* with separate chaining.  Strings are sequences of code points.  The     *)
(* Python heap is modelled by two arenas, nodes and contacts, whose        *)
(* indices are object identities; None is the identity 0.                  *)
(***************************************************************************)
EXTENDS Integers, Sequences, FiniteSets, TLC

(* ---------------------------- bounds ---------------------------------- *)

\* largest capacity handed to the constructor
MaxCap == 3
\* largest number of entries the table is filled with
MaxEntries == 3

(* ------------------------- input domains ------------------------------ *)

None == 0

\* "", "a", "ab", "ba": the empty key, and the anagrams "ab" / "ba"
Keys == { <<>>, <<97>>, <<97, 98>>, <<98, 97>> }

\* "", "909": the empty number, and a number
Numbers == { <<>>, <<57, 48, 57>> }

\* The values handed to HashTable(size): integers, floats (val counts
\* halves, so val = 5 is 2.5) and a string.
IntArgs == [type : {"int"}, val : (-1) .. MaxCap]
FloatArgs == [type : {"float"}, val : {-3, 0, 4, 5}]
StrArgs == [type : {"str"}, val : {0}]
CapArgs == IntArgs \cup FloatArgs \cup StrArgs

VARIABLES
    phase,      \* "start" before HashTable(size), then "ready" or "failed"
    size,       \* self.size
    data,       \* self.data: bucket i of the code is data[i + 1]
    nodes,      \* the Node objects, by identity
    contacts,   \* the Contact objects, by identity
    op,         \* the last call made
    opCap,      \* the argument of HashTable(size)
    opKey,      \* the key of the last insert / search / hash_function
    opNum,      \* the number of the last insert
    ret,        \* what the last call returned
    raised,     \* the exception the last call raised, or "none"
    out,        \* the lines the last call printed
    held,       \* a Contact returned by an earlier search, kept by the caller
    everNum,    \* history: key -> <<number of its most recent insert>>, or <<>>
    order,      \* history: the keys in the order of their first insert
    pre         \* history: the table and everNum as the last call found them

vars == <<phase, size, data, nodes, contacts, op, opCap, opKey, opNum, ret,
          raised, out, held, everNum, order, pre>>

\* the snapshot a call leaves in pre
Snapshot == [size |-> size, data |-> data, nodes |-> nodes,
             contacts |-> contacts, everNum |-> everNum]

(* ------------------------- HashTable.__init__ ------------------------- *)

\* the exception `size <= 0` raises, if any
LeZeroRaises(sz) == IF sz.type = "str" THEN "TypeError" ELSE "none"

\* `size < 0` in place of `size <= 0`
LeZeroStrict(sz) == sz.val < 0

\* the value of `size <= 0` for a number
LeZero(sz) == sz.val <= 0

\* a repetition that truncates a float count instead of rejecting it
RepeatTruncates(sz) == "none"

\* the exception `[None] * size` raises, if any
RepeatRaises(sz) == IF sz.type = "int" THEN "none" ELSE "TypeError"

\* the exception __init__ ends with, or "none"
InitRaises(sz) ==
    IF LeZeroRaises(sz) # "none" THEN LeZeroRaises(sz)
    ELSE IF LeZero(sz) THEN "ValueError"
    ELSE RepeatRaises(sz)

New(sz) ==
    /\ phase = "start"
    /\ op' = "new"
    /\ opCap' = sz
    /\ raised' = InitRaises(sz)
    /\ out' = <<>>
    /\ IF InitRaises(sz) = "none"
       THEN /\ phase' = "ready"
            /\ size' = sz.val
            /\ data' = [i \in 1 .. sz.val |-> None]
       ELSE /\ phase' = "failed"
            /\ UNCHANGED <<size, data>>
    /\ pre' = Snapshot
    /\ UNCHANGED <<nodes, contacts, opKey, opNum, ret, held, everNum, order>>

(* ------------------------ HashTable.hash_function --------------------- *)

\* `total = ord(ch)` in place of `total += ord(ch)`
totalLastOnly(key) == IF key = <<>> THEN 0 ELSE key[Len(key)]

RECURSIVE total(_)
\* the loop `for ch in key: total += ord(ch)`
total(key) ==
    IF key = <<>> THEN 0
    ELSE total(SubSeq(key, 1, Len(key) - 1)) + key[Len(key)]

hash_function(key) == total(key) % size

HashCall(key) ==
    /\ phase = "ready"
    /\ op' = "hash"
    /\ opKey' = key
    /\ opNum' = <<>>
    /\ ret' = hash_function(key)
    /\ raised' = "none"
    /\ out' = <<>>
    /\ pre' = Snapshot
    /\ UNCHANGED <<phase, size, data, nodes, contacts, opCap, held, everNum, order>>

(* --------------------------- HashTable.insert ------------------------- *)

RECURSIVE InsertWalkToTail(_, _)
\* a walk that compares the key at the tail only
InsertWalkToTail(current, key) ==
    IF nodes[current].next = None THEN current
    ELSE InsertWalkToTail(nodes[current].next, key)

\* no walk: the loop variable stays at the head
InsertWalkStay(current, key) == current

RECURSIVE InsertWalk(_, _)
\* the while loop of insert: the node it stops at, which is the first node
\* of the chain with the key or else the tail
InsertWalk(current, key) ==
    IF nodes[current].key = key THEN current
    ELSE IF nodes[current].next = None THEN current
    ELSE InsertWalk(nodes[current].next, key)

\* a fresh Contact takes the place of the node's Contact
ReplaceContact(current, key, number) ==
    /\ contacts' = Append(contacts, [name |-> key, number |-> number])
    /\ nodes' = [nodes EXCEPT ![current].value = Len(contacts) + 1]
    /\ UNCHANGED data

\* the number is written to the record at the head of the chain
UpdateHeadNumber(current, key, number) ==
    /\ contacts' = [contacts EXCEPT
                       ![nodes[data[hash_function(key) + 1]].value].number = number]
    /\ UNCHANGED <<nodes, data>>

\* the update branch returns without the assignment
UpdateSkipped(current, key, number) == UNCHANGED <<contacts, nodes, data>>

\* `current.value.number = number`; new_contact is dropped
UpdateNumber(current, key, number) ==
    /\ contacts' = [contacts EXCEPT ![nodes[current].value].number = number]
    /\ UNCHANGED <<nodes, data>>

\* the bucket array grows by a slot when a bucket is first used
PutHeadGrow(index, key, number) ==
    /\ contacts' = Append(contacts, [name |-> key, number |-> number])
    /\ nodes' = Append(nodes, [key |-> key, value |-> Len(contacts) + 1,
                               next |-> None])
    /\ data' = Append([data EXCEPT ![index + 1] = Len(nodes) + 1], None)

\* the node goes into the bucket after the one computed
PutHeadNextBucket(index, key, number) ==
    /\ contacts' = Append(contacts, [name |-> key, number |-> number])
    /\ nodes' = Append(nodes, [key |-> key, value |-> Len(contacts) + 1,
                               next |-> None])
    /\ data' = [data EXCEPT ![((index + 1) % size) + 1] = Len(nodes) + 1]

\* `self.data[index] = Node(key, new_contact)` on an empty bucket
PutHead(index, key, number) ==
    /\ contacts' = Append(contacts, [name |-> key, number |-> number])
    /\ nodes' = Append(nodes, [key |-> key, value |-> Len(contacts) + 1,
                               next |-> None])
    /\ data' = [data EXCEPT ![index + 1] = Len(nodes) + 1]

\* the new node is linked in front of the chain instead of behind its tail
PrependNode(current, key, number) ==
    /\ contacts' = Append(contacts, [name |-> key, number |-> number])
    /\ nodes' = Append(nodes, [key |-> key, value |-> Len(contacts) + 1,
                               next |-> data[hash_function(key) + 1]])
    /\ data' = [data EXCEPT ![hash_function(key) + 1] = Len(nodes) + 1]

\* the new node points back at the head: the chain becomes a ring
AppendNodeRing(current, key, number) ==
    /\ contacts' = Append(contacts, [name |-> key, number |-> number])
    /\ nodes' = Append([nodes EXCEPT ![current].next = Len(nodes) + 1],
                       [key |-> key, value |-> Len(contacts) + 1,
                        next |-> data[hash_function(key) + 1]])
    /\ UNCHANGED data

\* the new node is linked right behind the head of the chain
AppendAfterHead(current, key, number) ==
    LET head == data[hash_function(key) + 1]
    IN  /\ contacts' = Append(contacts, [name |-> key, number |-> number])
        /\ nodes' = Append([nodes EXCEPT ![head].next = Len(nodes) + 1],
                           [key |-> key, value |-> Len(contacts) + 1,
                            next |-> nodes[head].next])
        /\ UNCHANGED data

\* `current.next = Node(key, new_contact)`
AppendNode(current, key, number) ==
    /\ contacts' = Append(contacts, [name |-> key, number |-> number])
    /\ nodes' = Append([nodes EXCEPT ![current].next = Len(nodes) + 1],
                       [key |-> key, value |-> Len(contacts) + 1, next |-> None])
    /\ UNCHANGED data

Insert(key, number) ==
    /\ phase = "ready"
    /\ Len(nodes) < MaxEntries \/ everNum[key] # <<>>
    /\ LET index == hash_function(key)
           head == data[index + 1]
       IN  IF head = None
           THEN PutHead(index, key, number)
           ELSE LET current == InsertWalk(head, key)
                IN  IF nodes[current].key = key
                    THEN UpdateNumber(current, key, number)
                    ELSE AppendNode(current, key, number)
    /\ op' = "insert"
    /\ opKey' = key
    /\ opNum' = number
    /\ ret' = None
    /\ raised' = "none"
    /\ out' = <<>>
    /\ everNum' = [everNum EXCEPT ![key] = <<number>>]
    /\ order' = IF everNum[key] = <<>> THEN Append(order, key) ELSE order
    /\ pre' = Snapshot
    /\ UNCHANGED <<phase, size, opCap, held>>

(* --------------------------- HashTable.search ------------------------- *)

\* a search that looks at the head of the chain only
SearchHeadOnly(current, key) ==
    IF current = None THEN None
    ELSE IF nodes[current].key = key THEN nodes[current].value
    ELSE None

\* a search that trusts the bucket and compares no key
SearchFirstInBucket(current, key) ==
    IF current = None THEN None ELSE nodes[current].value

RECURSIVE SearchWalk(_, _)
\* the while loop of search: the Contact of the first node with the key
SearchWalk(current, key) ==
    IF current = None THEN None
    ELSE IF nodes[current].key = key THEN nodes[current].value
    ELSE SearchWalk(nodes[current].next, key)

search(key) == SearchWalk(data[hash_function(key) + 1], key)

\* a search that files an empty record for a key whose bucket is empty
SearchOrCreate(key) ==
    /\ phase = "ready"
    /\ op' = "search"
    /\ opKey' = key
    /\ opNum' = <<>>
    /\ ret' = search(key)
    /\ raised' = "none"
    /\ out' = <<>>
    /\ held' = IF search(key) # None THEN search(key) ELSE held
    /\ pre' = Snapshot
    /\ IF data[hash_function(key) + 1] = None /\ Len(nodes) < MaxEntries
       THEN PutHead(hash_function(key), key, <<>>)
       ELSE UNCHANGED <<data, nodes, contacts>>
    /\ UNCHANGED <<phase, size, opCap, everNum, order>>

Search(key) ==
    /\ phase = "ready"
    /\ op' = "search"
    /\ opKey' = key
    /\ opNum' = <<>>
    /\ ret' = search(key)
    /\ raised' = "none"
    /\ out' = <<>>
    /\ held' = IF search(key) # None THEN search(key) ELSE held
    /\ pre' = Snapshot
    /\ UNCHANGED <<phase, size, data, nodes, contacts, opCap, everNum, order>>

(* ------------------------- HashTable.print_table ---------------------- *)

\* "Index ", "Empty", "- ", ": ", " "
IndexLabel == <<73, 110, 100, 101, 120, 32>>
EmptyText == <<69, 109, 112, 116, 121>>
Dash == <<45, 32>>
Colon == <<58, 32>>
Space == <<32>>

RECURSIVE IntStr(_)
\* str(i) of a non-negative int, as the f-string formats `{i}`
IntStr(i) ==
    IF i < 10 THEN <<48 + i>> ELSE IntStr(i \div 10) \o <<48 + (i % 10)>>

\* a __str__ that leaves out the space after the colon
ContactStrTight(c) == contacts[c].name \o <<58>> \o contacts[c].number

\* Contact.__str__: f"{self.name}: {self.number}"
ContactStr(c) == contacts[c].name \o Colon \o contacts[c].number

\* a rendering that prints the head of the chain and stops
PrintHeadOnly(current) ==
    IF current = None THEN <<>> ELSE Dash \o ContactStr(nodes[current].value) \o Space

RECURSIVE PrintChain(_)
\* the loop `while current: print(f"- {current.value}", end=" ")`
PrintChain(current) ==
    IF current = None THEN <<>>
    ELSE Dash \o ContactStr(nodes[current].value) \o Space
             \o PrintChain(nodes[current].next)

\* the line print_table writes for bucket i, without its newline
PrintLine(i) ==
    IndexLabel \o IntStr(i) \o <<58>> \o Space
        \o (IF data[i + 1] = None THEN EmptyText ELSE PrintChain(data[i + 1]))

\* a loop that stops one bucket short
PrintRangeShort == 0 .. size - 2

\* `range(self.size)`
PrintRange == 0 .. size - 1

PrintTable ==
    /\ phase = "ready"
    /\ op' = "print"
    /\ opKey' = <<>>
    /\ opNum' = <<>>
    /\ ret' = None
    /\ raised' = "none"
    /\ out' = [j \in {i + 1 : i \in PrintRange} |-> PrintLine(j - 1)]
    /\ pre' = Snapshot
    /\ UNCHANGED <<phase, size, data, nodes, contacts, opCap, held, everNum, order>>

(* ---------------------------- specification --------------------------- *)

Init ==
    /\ phase = "start"
    /\ size = 0
    /\ data = <<>>
    /\ nodes = <<>>
    /\ contacts = <<>>
    /\ op = "none"
    /\ opCap = [type |-> "int", val |-> 0]
    /\ opKey = <<>>
    /\ opNum = <<>>
    /\ ret = None
    /\ raised = "none"
    /\ out = <<>>
    /\ held = None
    /\ everNum = [k \in Keys |-> <<>>]
    /\ order = <<>>
    /\ pre = [size |-> 0, data |-> <<>>, nodes |-> <<>>, contacts |-> <<>>,
              everNum |-> [k \in Keys |-> <<>>]]

Next ==
    \/ \E sz \in CapArgs : New(sz)
    \/ \E key \in Keys : HashCall(key)
    \/ \E key \in Keys, number \in Numbers : Insert(key, number)
    \/ \E key \in Keys : Search(key)
    \/ PrintTable

Spec == Init /\ [][Next]_vars

(* The calls of the __main__ script, in any order and number: a table of   *)
(* capacity 10 with the script's names and numbers.                        *)

\* HashTable(10)
DemoCap == [type |-> "int", val |-> 10]

\* "John", "Amy", "May"
John == <<74, 111, 104, 110>>
Amy == <<65, 109, 121>>
May == <<77, 97, 121>>
DemoKeys == {John, Amy, May}

\* "909-876-1234", "111-222-3333", "222-333-1111"
JohnNumber == <<57, 48, 57, 45, 56, 55, 54, 45, 49, 50, 51, 52>>
AmyNumber == <<49, 49, 49, 45, 50, 50, 50, 45, 51, 51, 51, 51>>
MayNumber == <<50, 50, 50, 45, 51, 51, 51, 45, 49, 49, 49, 49>>
DemoNumbers == {JohnNumber, AmyNumber, MayNumber}

InitDemo ==
    /\ phase = "start"
    /\ size = 0
    /\ data = <<>>
    /\ nodes = <<>>
    /\ contacts = <<>>
    /\ op = "none"
    /\ opCap = [type |-> "int", val |-> 0]
    /\ opKey = <<>>
    /\ opNum = <<>>
    /\ ret = None
    /\ raised = "none"
    /\ out = <<>>
    /\ held = None
    /\ everNum = [k \in DemoKeys |-> <<>>]
    /\ order = <<>>
    /\ pre = [size |-> 0, data |-> <<>>, nodes |-> <<>>, contacts |-> <<>>,
              everNum |-> [k \in DemoKeys |-> <<>>]]

NextDemo ==
    \/ New(DemoCap)
    \/ \E key \in DemoKeys : HashCall(key)
    \/ \E key \in DemoKeys, number \in DemoNumbers : Insert(key, number)
    \/ \E key \in DemoKeys : Search(key)
    \/ PrintTable

SpecDemo == InitDemo /\ [][NextDemo]_vars

(* ------------------------------ claims -------------------------------- *)

PositiveInt(sz) == sz.type = "int" /\ sz.val > 0

\* C1: constructing with a positive integer capacity C yields a table of
\* exactly C buckets, all empty; constructing with an integer C <= 0 raises
\* ValueError and leaves no table.
C1_Construction ==
    (op = "new" /\ opCap.type = "int") =>
        IF opCap.val > 0
        THEN /\ phase = "ready"
             /\ raised = "none"
             /\ size = opCap.val
             /\ Len(data) = opCap.val
             /\ \A i \in 1 .. Len(data) : data[i] = None
             /\ nodes = <<>>
             /\ contacts = <<>>
        ELSE /\ phase = "failed"
             /\ raised = "ValueError"
             /\ data = <<>>

C1_Witness ==
    op = "new" /\ opCap.type = "int" /\ opCap.val = 3 /\ Len(data) = 3

\* C2 as stated: ValueError is raised by construction only, and by every
\* construction whose capacity is not a positive integer, non-integers
\* included.
C2_Original ==
    /\ raised = "ValueError" => op = "new"
    /\ (op = "new" /\ ~PositiveInt(opCap)) => raised = "ValueError"

\* C2 amended: ValueError is raised by construction only, and exactly when
\* the capacity is a number <= 0; every other capacity that is not a positive
\* integer (a positive float, a string) makes construction fail with
\* TypeError, and no table results from a failed construction.
C2_ValueErrorAtConstruction ==
    /\ raised = "ValueError" <=>
            (op = "new" /\ opCap.type \in {"int", "float"} /\ opCap.val <= 0)
    /\ (op = "new" /\ ~PositiveInt(opCap)) =>
            (raised \in {"ValueError", "TypeError"} /\ phase = "failed" /\ data = <<>>)
    /\ (op = "new" /\ ~PositiveInt(opCap) /\ raised = "TypeError") =>
            (opCap.type = "str" \/ (opCap.type = "float" /\ opCap.val > 0))

C2_Witness ==
    op = "new" /\ opCap.type = "float" /\ opCap.val = 5 /\ raised = "TypeError"

RECURSIVE CodePointSum(_)
CodePointSum(key) == IF key = <<>> THEN 0 ELSE Head(key) + CodePointSum(Tail(key))

\* C3: hash_function(K) is the sum of K's code points modulo the capacity
\* given at construction, whatever the table holds; it lies in [0, C), is 0
\* for the empty key, and the call leaves the table as it found it.
C3_HashFunction ==
    op = "hash" =>
        /\ ret = CodePointSum(opKey) % opCap.val
        /\ ret \in 0 .. (Len(data) - 1)
        /\ opKey = <<>> => ret = 0
        /\ <<size, data, nodes, contacts>> =
               <<pre.size, pre.data, pre.nodes, pre.contacts>>

C3_Witness ==
    op = "hash" /\ opKey = <<97, 98>> /\ size = 2 /\ ret = 1 /\ Len(nodes) >= 2

(* Reading a table: the chain of a bucket as the sequence of its nodes. *)

RECURSIVE ChainFrom(_, _)
ChainFrom(ns, n) == IF n = None THEN <<>> ELSE <<n>> \o ChainFrom(ns, ns[n].next)

\* the keys of bucket i (0-based) of the table with buckets d and nodes ns
ChainKeys(d, ns, i) ==
    LET c == ChainFrom(ns, d[i + 1]) IN [j \in 1 .. Len(c) |-> ns[c[j]].key]

RECURSIVE KeysUpTo(_, _, _)
\* the keys of buckets 0 .. i - 1, bucket by bucket, each in chain order
KeysUpTo(d, ns, i) ==
    IF i = 0 THEN <<>> ELSE KeysUpTo(d, ns, i - 1) \o ChainKeys(d, ns, i - 1)

EntryCount(d, ns) == Len(KeysUpTo(d, ns, Len(d)))

KeyCount(d, ns, key) ==
    LET ks == KeysUpTo(d, ns, Len(d))
    IN  Cardinality({j \in 1 .. Len(ks) : ks[j] = key})

Inserted(key) == everNum[key] # <<>>

\* the bucket a key belongs to, by the sum of its code points
BucketOf(key) == CodePointSum(key) % opCap.val

\* the record search finds for key is (key, number)
Finds(key, number) ==
    /\ search(key) # None
    /\ contacts[search(key)] = [name |-> key, number |-> number]

\* C4: after insert(K, N) of a key K never inserted before, search(K) returns
\* a record equal to (K, N).
C4_InsertSearchRoundTrip ==
    (op = "insert" /\ pre.everNum[opKey] = <<>>) => Finds(opKey, opNum)

C4_Witness ==
    /\ op = "insert" /\ pre.everNum[opKey] = <<>>
    /\ Len(ChainKeys(data, nodes, BucketOf(opKey))) = 3
    /\ Finds(opKey, opNum)

\* C5: an insert of an already inserted key with a different number leaves
\* exactly one entry for the key, holding the new number, and leaves the
\* number of entries of the table as it was.
C5_UpdateViaInsert ==
    (op = "insert" /\ pre.everNum[opKey] # <<>> /\ pre.everNum[opKey] # <<opNum>>) =>
        /\ KeyCount(data, nodes, opKey) = 1
        /\ Finds(opKey, opNum)
        /\ EntryCount(data, nodes) = EntryCount(pre.data, pre.nodes)

C5_Witness ==
    /\ op = "insert" /\ pre.everNum[opKey] # <<>> /\ pre.everNum[opKey] # <<opNum>>
    /\ EntryCount(data, nodes) = 3
    /\ ChainKeys(data, nodes, BucketOf(opKey))[1] # opKey

\* C6: in every state each key has at most one entry in the whole table.
C6_NoDuplicateKeys ==
    phase = "ready" => \A key \in Keys : KeyCount(data, nodes, key) <= 1

C6_Witness ==
    /\ op = "insert" /\ pre.everNum[opKey] # <<>>
    /\ EntryCount(data, nodes) = 3
    /\ \E i \in 0 .. size - 1 : Len(ChainKeys(data, nodes, i)) >= 2
    /\ \A key \in Keys : KeyCount(data, nodes, key) <= 1

\* the inserted keys of bucket i, in the order of their first insert
RECURSIVE OrderedIn(_, _)
OrderedIn(ks, i) ==
    IF ks = <<>> THEN <<>>
    ELSE IF BucketOf(Head(ks)) = i THEN <<Head(ks)>> \o OrderedIn(Tail(ks), i)
    ELSE OrderedIn(Tail(ks), i)

\* C7: when exactly two distinct keys of one bucket have been inserted, the
\* chain of the bucket holds exactly these two, in the order of their
\* inserts, and search returns for each its own record.
C7_CollisionHandling ==
    phase = "ready" =>
        \A i \in 0 .. size - 1 :
            LET ks == OrderedIn(order, i)
            IN  Len(ks) = 2 =>
                    /\ ChainKeys(data, nodes, i) = ks
                    /\ Finds(ks[1], everNum[ks[1]][1])
                    /\ Finds(ks[2], everNum[ks[2]][1])
                    /\ search(ks[1]) # search(ks[2])

C7_Witness ==
    /\ op = "insert" /\ opKey = <<98, 97>> /\ pre.everNum[opKey] = <<>>
    /\ size = 3
    /\ OrderedIn(order, 0) = << <<97, 98>>, <<98, 97>> >>
    /\ ChainKeys(data, nodes, 0) = << <<97, 98>>, <<98, 97>> >>

\* C8: search of a key never inserted returns None and raises nothing, also
\* when the bucket of the key holds other keys.
C8_NotFound ==
    (op = "search" /\ ~Inserted(opKey)) => (ret = None /\ raised = "none")

C8_Witness ==
    /\ op = "search" /\ ~Inserted(opKey) /\ ret = None
    /\ Len(ChainKeys(data, nodes, BucketOf(opKey))) >= 2

\* C9: search leaves the capacity, the bucket heads, the chains and every
\* entry's key and number as it found them.
C9_SearchReadOnly ==
    op = "search" =>
        /\ size = pre.size
        /\ data = pre.data
        /\ nodes = pre.nodes
        /\ contacts = pre.contacts

C9_Witness ==
    /\ op = "search" /\ ret = None /\ data[BucketOf(opKey) + 1] = None
    /\ EntryCount(data, nodes) = 2 /\ data = pre.data

\* C10: a record returned by search is the table's own: after any later
\* insert of its key it shows the number of that insert, and it is the record
\* a later search of its key returns.
C10_SearchReturnsHandle ==
    held # None =>
        /\ search(contacts[held].name) = held
        /\ <<contacts[held].number>> = everNum[contacts[held].name]

C10_Witness ==
    /\ held # None /\ op = "insert" /\ opKey = contacts[held].name
    /\ pre.contacts[held].number # opNum
    /\ contacts[held].number = opNum

IsPrefix(p, q) == Len(p) <= Len(q) /\ SubSeq(q, 1, Len(p)) = p

\* the last call was made on a constructed table
OnTable == op \in {"hash", "insert", "search", "print"}

\* C11: every entry is in the chain of the bucket given by the code point
\* sum of its key modulo the capacity, and the entries a call finds in a
\* bucket are, after the call, still the first entries of that bucket.
C11_Placement ==
    phase = "ready" =>
        \A i \in 0 .. size - 1 :
            /\ \A j \in 1 .. Len(ChainKeys(data, nodes, i)) :
                   BucketOf(ChainKeys(data, nodes, i)[j]) = i
            /\ OnTable => IsPrefix(ChainFrom(pre.nodes, pre.data[i + 1]),
                                   ChainFrom(nodes, data[i + 1]))

C11_Witness ==
    /\ op = "insert" /\ size = 3 /\ EntryCount(data, nodes) = 3
    /\ EntryCount(pre.data, pre.nodes) = 2
    /\ Len(ChainKeys(pre.data, pre.nodes, 0)) = 1
    /\ Len(ChainKeys(data, nodes, 0)) = 2
    /\ Len(ChainKeys(data, nodes, 1)) = 1

\* C12: the keys of each chain, from head to tail, are the keys of that
\* bucket in the order of their first inserts; an insert of a new key adds
\* it at the tail, and an insert of an existing key adds no entry and moves
\* none.
C12_ChainOrder ==
    phase = "ready" =>
        /\ \A i \in 0 .. size - 1 : ChainKeys(data, nodes, i) = OrderedIn(order, i)
        /\ (op = "insert" /\ pre.everNum[opKey] = <<>>) =>
               ChainKeys(data, nodes, BucketOf(opKey)) =
                   Append(ChainKeys(pre.data, pre.nodes, BucketOf(opKey)), opKey)
        /\ (op = "insert" /\ pre.everNum[opKey] # <<>>) =>
               (nodes = pre.nodes /\ data = pre.data)

C12_Witness ==
    /\ op = "insert" /\ pre.everNum[opKey] # <<>>
    /\ \E i \in 0 .. size - 1 :
           /\ Len(ChainKeys(data, nodes, i)) = 3
           /\ ChainKeys(data, nodes, i)[2] = opKey

RECURSIVE WalkEnds(_, _, _)
\* insert's loop, started at current, ends within fuel iterations
WalkEnds(current, key, fuel) ==
    IF fuel = 0 THEN FALSE
    ELSE IF nodes[current].key = key THEN TRUE
    ELSE IF nodes[current].next = None THEN TRUE
    ELSE WalkEnds(nodes[current].next, key, fuel - 1)

\* C13: in every state of a constructed table and for every key, insert's
\* index is a bucket of the table and its loop ends within as many
\* iterations as the table has entries; insert can be called with every key
\* and number, the empty ones included, whatever the chains' lengths, and it
\* raises nothing and returns None.
C13_InsertSucceeds ==
    /\ phase = "ready" =>
           \A key \in Keys :
               /\ hash_function(key) \in 0 .. Len(data) - 1
               /\ data[hash_function(key) + 1] # None =>
                      WalkEnds(data[hash_function(key) + 1], key, Len(nodes))
    /\ (phase = "ready" /\ Len(nodes) < MaxEntries) =>
           \A key \in Keys, number \in Numbers : ENABLED Insert(key, number)
    /\ op = "insert" => (raised = "none" /\ ret = None)

C13_Witness ==
    /\ op = "insert" /\ opKey = <<>> /\ opNum = <<>> /\ pre.everNum[opKey] = <<>>
    /\ size = 1
    /\ ChainKeys(data, nodes, 0) = << <<97>>, <<97, 98>>, <<>> >>
    /\ raised = "none"

\* C14: every key ever inserted is found by search; a call on the table
\* leaves every entry it finds in place with its key, its record and the
\* record's name, and the number of entries does not decrease.
C14_EntriesNeverDestroyed ==
    phase = "ready" =>
        /\ \A key \in Keys :
               Inserted(key) => (search(key) # None /\ contacts[search(key)].name = key)
        /\ OnTable =>
               /\ EntryCount(data, nodes) >= EntryCount(pre.data, pre.nodes)
               /\ \A key \in Keys :
                      KeyCount(pre.data, pre.nodes, key) <= KeyCount(data, nodes, key)
               /\ \A n \in 1 .. Len(pre.nodes) :
                      /\ nodes[n].key = pre.nodes[n].key
                      /\ nodes[n].value = pre.nodes[n].value
                      /\ contacts[nodes[n].value].name =
                             pre.contacts[pre.nodes[n].value].name

C14_Witness ==
    /\ op = "insert" /\ pre.everNum[opKey] = <<>>
    /\ EntryCount(data, nodes) = 3
    /\ Len(ChainKeys(data, nodes, BucketOf(opKey))) = 3
    /\ \A key \in Keys : Inserted(key) => search(key) # None

RECURSIVE Listing(_)
\* "- name: number " for each of the keys ks, with the number of the key's
\* most recent insert
Listing(ks) ==
    IF ks = <<>> THEN <<>>
    ELSE <<45, 32>> \o Head(ks) \o <<58, 32>> \o everNum[Head(ks)][1] \o <<32>>
             \o Listing(Tail(ks))

\* "Index i: "
LinePrefix(i) == <<73, 110, 100, 101, 120, 32>> \o IntStr(i) \o <<58, 32>>

\* C15: print_table writes one line per bucket, in ascending bucket order;
\* the line of bucket i is "Index i: Empty" when no key of the bucket was
\* inserted, and otherwise "Index i: " followed by "- name: number " for each
\* key of the bucket, once, in the order of the first inserts.
C15_RenderOrdering ==
    op = "print" =>
        /\ Len(out) = size
        /\ \A i \in 0 .. size - 1 :
               out[i + 1] =
                   LinePrefix(i) \o
                       (IF OrderedIn(order, i) = <<>>
                        THEN <<69, 109, 112, 116, 121>>
                        ELSE Listing(OrderedIn(order, i)))

C15_Witness ==
    /\ op = "print" /\ size = 2
    /\ Len(OrderedIn(order, 1)) = 2
    /\ Len(OrderedIn(order, 0)) = 0
    /\ Len(out) = 2

\* C16: print_table on a table no insert was made on writes as many lines
\* as the capacity given at construction, line i being "Index i: Empty".
C16_RenderFresh ==
    (op = "print" /\ order = <<>>) =>
        /\ Len(out) = opCap.val
        /\ \A j \in 1 .. opCap.val :
               out[j] = LinePrefix(j - 1) \o <<69, 109, 112, 116, 121>>

C16_Witness ==
    /\ op = "print" /\ order = <<>> /\ opCap.val = 3 /\ Len(out) = 3
    /\ out[3] = <<73, 110, 100, 101, 120, 32, 50, 58, 32, 69, 109, 112, 116, 121>>

\* C18: on a constructed table, whatever calls were made, size and the
\* number of bucket slots are the positive capacity given at construction.
C18_CapacityFixed ==
    phase = "ready" =>
        /\ opCap.type = "int" /\ opCap.val > 0
        /\ size = opCap.val
        /\ Len(data) = opCap.val

C18_Witness ==
    /\ op = "print" /\ EntryCount(data, nodes) = 3 /\ opCap.val = 2
    /\ Len(data) = 2

\* the entries of bucket i of a table, each with its key and its record
Records(d, ns, cs, i) ==
    LET c == ChainFrom(ns, d[i + 1])
    IN  [j \in 1 .. Len(c) |->
            [key |-> ns[c[j]].key, name |-> cs[ns[c[j]].value].name,
             number |-> cs[ns[c[j]].value].number]]

\* C19: insert(K, N) leaves the capacity and every bucket but K's as they
\* were; K's bucket either gains the entry (K, N) behind its former entries,
\* which stay as they were, or has the number of K's entry set to N and
\* nothing else changed.
C19_InsertFrame ==
    op = "insert" =>
        LET b == BucketOf(opKey)
            was == Records(pre.data, pre.nodes, pre.contacts, b)
            now == Records(data, nodes, contacts, b)
        IN  /\ size = pre.size
            /\ Len(data) = Len(pre.data)
            /\ \A i \in 0 .. size - 1 :
                   i # b => Records(data, nodes, contacts, i) =
                                Records(pre.data, pre.nodes, pre.contacts, i)
            /\ IF \E j \in 1 .. Len(was) : was[j].key = opKey
               THEN /\ Len(now) = Len(was)
                    /\ \A j \in 1 .. Len(was) :
                           now[j] = IF was[j].key = opKey
                                    THEN [was[j] EXCEPT !.number = opNum]
                                    ELSE was[j]
               ELSE now = Append(was, [key |-> opKey, name |-> opKey,
                                       number |-> opNum])

C19_Witness ==
    /\ op = "insert" /\ size = 2 /\ opKey = <<97, 98>>
    /\ pre.everNum[opKey] \notin {<<>>, <<opNum>>}
    /\ ChainKeys(data, nodes, 1) = << <<97>>, <<97, 98>>, <<98, 97>> >>

\* C20: search answers as a map from keys to numbers does: for a key ever
\* inserted it returns the record (key, number of the most recent insert of
\* the key), for any other key None; and every node's key is the name of the
\* record the node holds.
C20_RefinesMap ==
    phase = "ready" =>
        /\ \A key \in Keys :
               IF Inserted(key) THEN Finds(key, everNum[key][1])
               ELSE search(key) = None
        /\ \A n \in 1 .. Len(nodes) : nodes[n].key = contacts[nodes[n].value].name

C20_Witness ==
    /\ op = "insert" /\ pre.everNum[opKey] \notin {<<>>, <<opNum>>}
    /\ size = 1 /\ EntryCount(data, nodes) = 3
    /\ ChainKeys(data, nodes, 0)[1] = opKey
    /\ \E key \in Keys : ~Inserted(key) /\ search(key) = None

\* "- Amy: 111-222-3333 - May: 222-333-1111"
AmyMayText ==
    <<45, 32, 65, 109, 121, 58, 32, 49, 49, 49, 45, 50, 50, 50,
      45, 51, 51, 51, 51, 32, 45, 32, 77, 97, 121, 58, 32, 50,
      50, 50, 45, 51, 51, 51, 45, 49, 49, 49, 49>>

\* the last call printed a table whose bucket 5 got Amy with her number and
\* then May with hers, and no other key
AmyThenMayPrinted ==
    /\ op = "print"
    /\ OrderedIn(order, 5) = <<Amy, May>>
    /\ everNum[Amy] = <<AmyNumber>>
    /\ everNum[May] = <<MayNumber>>

====
